---- MODULE Spec2Model ----
(***************************************************************************)
(* Model of src/main.py: the donation matching service.                   *)
(*                                                                         *)
(* The store holds the tables donations, demands and schools.  Every      *)
(* match_donation request runs in its own worker; a step of the model is  *)
(* one data-access call of the handler together with the local            *)
(* computation that follows it up to the next call.  Requests interleave  *)
(* between calls, since the handler takes no lock and opens no            *)
(* transaction.                                                            *)
(*                                                                         *)
(* Coordinates: all points lie on the meridian lng = 0 and a latitude is  *)
(* expressed as kilometres of arc from the equator, so that the haversine *)
(* distance of calculate_distance is the absolute difference of the two   *)
(* latitudes.  Scores are the code's scores multiplied by Scale, which    *)
(* makes them integers for whole-kilometre distances.                      *)
(***************************************************************************)
EXTENDS Integers, Sequences, FiniteSets, TLC

\* ---------------------------------------------------------------- bounds
NumProcs == 2          \* concurrent request workers
MaxQuantity == 2       \* largest donation quantity

Procs == 1..NumProcs
DonationIds == 1..2
RequestIds == 1..3     \* 3 is the id of no donation
Categories == {"books", "toys"}
Names == {"Math", "Novel"}
Priorities == 1..5

\* ------------------------------------------------------ policy constants
MAX_DISTANCE == 200
Scale == 10 * MAX_DISTANCE
W_PRIORITY == (5 * Scale) \div 10
W_DISTANCE == (3 * Scale) \div 10
W_SUITABILITY == (2 * Scale) \div 10
InitialBestScore == 0 - Scale

PENDING == "pending"
MATCHED == "matched"

VARIABLES
    donations,          \* table donations: donation_id -> row
    demands,            \* table demands: sequence of rows, in table order
    schools,            \* table schools: school_id -> row
    pc,                 \* position of each request worker
    donation_id,        \* request.donation_id of each worker
    donation,           \* donation_response.data[0] as read by the worker
    best_demand,        \* result of find_best_match
    outcome,            \* response of the finished request
    successes,          \* history: number of Success responses per donation
    solo                \* history: the request running alone, with the store it started from

vars == <<donations, demands, schools, pc, donation_id, donation,
          best_demand, outcome, successes, solo>>

NoRow == [demand_id |-> 0]
NoDonation == [donation_id |-> 0]
NoSolo == [proc |-> 0, donations |-> <<>>, demands |-> <<>>, schools |-> <<>>]

Abs(x) == IF x < 0 THEN 0 - x ELSE x

\* calculate_distance on the meridian lng = 0, latitudes in km of arc
calculate_distance(lat1, lon1, lat2, lon2) ==
    Abs(lat2 - lat1)

priority_score(demand) ==
    (demand.priority * W_PRIORITY) \div 5

\* mutant: the distance share grows with the distance
distance_score_Inverted(dist) ==
    (dist * W_DISTANCE) \div MAX_DISTANCE

distance_score(dist) ==
    ((MAX_DISTANCE - dist) * W_DISTANCE) \div MAX_DISTANCE

suitability_score(don, demand) ==
    IF don.item_name = demand.item_name THEN W_SUITABILITY ELSE 0

Dist(don, demand) ==
    calculate_distance(don.donor_lat, don.donor_lng,
                       demand.schools.location_lat, demand.schools.location_lng)

total_score(don, demand) ==
    priority_score(demand) + distance_score(Dist(don, demand))
        + suitability_score(don, demand)

\* the query of find_best_match: same category, quantity_fulfilled <
\* quantity_needed, each row joined with its school, in table order
JoinSchool(row) ==
    [demand_id |-> row.demand_id,
     item_category |-> row.item_category,
     item_name |-> row.item_name,
     priority |-> row.priority,
     quantity_needed |-> row.quantity_needed,
     quantity_fulfilled |-> row.quantity_fulfilled,
     school_id |-> row.school_id,
     schools |-> schools[row.school_id]]

\* mutant: the query forgets the category filter
QueryFilter_NoCategory(don, row) ==
    row.quantity_fulfilled < row.quantity_needed

QueryFilter(don, row) ==
    /\ row.item_category = don.item_category
    /\ row.quantity_fulfilled < row.quantity_needed

RECURSIVE SelectRows(_, _)
SelectRows(don, i) ==
    IF i > Len(demands) THEN <<>>
    ELSE IF QueryFilter(don, demands[i])
         THEN <<JoinSchool(demands[i])>> \o SelectRows(don, i + 1)
         ELSE SelectRows(don, i + 1)

QueryDemands(don) == SelectRows(don, 1)

\* mutant: a candidate at exactly MAX_DISTANCE is skipped too
TooFar_Inclusive(dist) ==
    dist >= MAX_DISTANCE

\* the hard cutoff of the loop
TooFar(dist) ==
    dist > MAX_DISTANCE

\* mutant: a later candidate with an equal score replaces the best
Improves_OrEqual(score, best_score) ==
    score >= best_score

\* the replacement test of the loop
Improves(score, best_score) ==
    score > best_score

\* mutant: the loop replaces best_match and forgets to raise best_score
RECURSIVE ScanFrom_StaleScore(_, _, _, _, _)
ScanFrom_StaleScore(don, rows, i, best_match, best_score) ==
    IF i > Len(rows) THEN best_match
    ELSE LET demand == rows[i]
             dist == Dist(don, demand)
             score == total_score(don, demand)
         IN IF TooFar(dist)
            THEN ScanFrom_StaleScore(don, rows, i + 1, best_match, best_score)
            ELSE IF Improves(score, best_score)
                 THEN ScanFrom_StaleScore(don, rows, i + 1, demand, best_score)
                 ELSE ScanFrom_StaleScore(don, rows, i + 1, best_match, best_score)

\* the loop of find_best_match over the rows from index i on
RECURSIVE ScanFrom(_, _, _, _, _)
ScanFrom(don, rows, i, best_match, best_score) ==
    IF i > Len(rows) THEN best_match
    ELSE LET demand == rows[i]
             dist == Dist(don, demand)
             score == total_score(don, demand)
         IN IF TooFar(dist)
            THEN ScanFrom(don, rows, i + 1, best_match, best_score)
            ELSE IF Improves(score, best_score)
                 THEN ScanFrom(don, rows, i + 1, demand, score)
                 ELSE ScanFrom(don, rows, i + 1, best_match, best_score)

\* mutant: the first candidate is the default answer
find_best_match_FirstDefault(don) ==
    LET rows == QueryDemands(don)
    IN IF rows = <<>> THEN NoRow
       ELSE ScanFrom(don, rows, 1, rows[1], InitialBestScore)

find_best_match(don) ==
    LET rows == QueryDemands(don)
    IN IF rows = <<>> THEN NoRow
       ELSE ScanFrom(don, rows, 1, NoRow, InitialBestScore)

\* ------------------------------------------------------------ responses
RUNNING == "running"
SUCCESS == "Success"
NOT_FOUND_DONATION == "NotFound: no pending donation with this id"
NOT_FOUND_DEMAND == "NotFound: no suitable demand found"
UPDATE_FAILED == "UpdateFailed"
INTERNAL_ERROR == "unhandled exception"

HttpStatus(o) ==
    CASE o = SUCCESS -> 200
      [] o \in {NOT_FOUND_DONATION, NOT_FOUND_DEMAND} -> 404
      [] OTHER -> 500

Active(p) == pc[p] \in {"select", "commit", "commit2"}

\* history bookkeeping of a step of worker p other than the start of a request
SoloStep(p) ==
    IF solo.proc = p THEN solo ELSE NoSolo

\* ---------------------------------------------------- match_donation
\* the fetch of the pending donation with this id
\* mutant: the fetch forgets the status filter
FetchPending_AnyStatus(id) ==
    IF id \in DOMAIN donations THEN <<donations[id]>> ELSE <<>>

FetchPending(id) ==
    IF id \in DOMAIN donations /\ donations[id].status = PENDING
    THEN <<donations[id]>>
    ELSE <<>>

Fetch(p, id) ==
    /\ pc[p] \in {"idle", "done"}
    /\ donation_id' = [donation_id EXCEPT ![p] = id]
    /\ best_demand' = [best_demand EXCEPT ![p] = NoRow]
    /\ LET data == FetchPending(id)
       IN IF data = <<>>
          THEN /\ pc' = [pc EXCEPT ![p] = "done"]
               /\ outcome' = [outcome EXCEPT ![p] = NOT_FOUND_DONATION]
               /\ donation' = [donation EXCEPT ![p] = NoDonation]
          ELSE /\ pc' = [pc EXCEPT ![p] = "select"]
               /\ outcome' = [outcome EXCEPT ![p] = RUNNING]
               /\ donation' = [donation EXCEPT ![p] = data[1]]
    /\ solo' = IF \A q \in Procs \ {p} : ~Active(q)
               THEN [proc |-> p, donations |-> donations, demands |-> demands,
                     schools |-> schools]
               ELSE NoSolo
    /\ UNCHANGED <<donations, demands, schools, successes>>

\* the fetch raises: nothing catches it
FetchFails(p, id) ==
    /\ pc[p] \in {"idle", "done"}
    /\ donation_id' = [donation_id EXCEPT ![p] = id]
    /\ best_demand' = [best_demand EXCEPT ![p] = NoRow]
    /\ donation' = [donation EXCEPT ![p] = NoDonation]
    /\ pc' = [pc EXCEPT ![p] = "done"]
    /\ outcome' = [outcome EXCEPT ![p] = INTERNAL_ERROR]
    /\ solo' = NoSolo
    /\ UNCHANGED <<donations, demands, schools, successes>>

\* mutant: the donation is marked matched before the result is tested
Select_WritesBeforeTest(p) ==
    /\ pc[p] = "select"
    /\ LET best == find_best_match(donation[p])
       IN IF best = NoRow
          THEN /\ pc' = [pc EXCEPT ![p] = "done"]
               /\ outcome' = [outcome EXCEPT ![p] = NOT_FOUND_DEMAND]
               /\ donation' = [donation EXCEPT ![p] = NoDonation]
               /\ UNCHANGED best_demand
          ELSE /\ pc' = [pc EXCEPT ![p] = "commit"]
               /\ best_demand' = [best_demand EXCEPT ![p] = best]
               /\ UNCHANGED <<outcome, donation>>
    /\ donations' = [d \in DOMAIN donations |->
                        IF donations[d].donation_id = donation_id[p]
                        THEN [donations[d] EXCEPT !.status = MATCHED]
                        ELSE donations[d]]
    /\ solo' = IF solo.proc = p THEN solo ELSE NoSolo
    /\ UNCHANGED <<demands, schools, donation_id, successes>>

\* find_best_match(donation) and the test of its result
Select(p) ==
    /\ pc[p] = "select"
    /\ LET best == find_best_match(donation[p])
       IN IF best = NoRow
          THEN /\ pc' = [pc EXCEPT ![p] = "done"]
               /\ outcome' = [outcome EXCEPT ![p] = NOT_FOUND_DEMAND]
               /\ donation' = [donation EXCEPT ![p] = NoDonation]
               /\ UNCHANGED best_demand
          ELSE /\ pc' = [pc EXCEPT ![p] = "commit"]
               /\ best_demand' = [best_demand EXCEPT ![p] = best]
               /\ UNCHANGED <<outcome, donation>>
    /\ solo' = SoloStep(p)
    /\ UNCHANGED <<donations, demands, schools, donation_id, successes>>

\* the candidate query raises: nothing catches it
SelectFails(p) ==
    /\ pc[p] = "select"
    /\ pc' = [pc EXCEPT ![p] = "done"]
    /\ outcome' = [outcome EXCEPT ![p] = INTERNAL_ERROR]
    /\ donation' = [donation EXCEPT ![p] = NoDonation]
    /\ solo' = SoloStep(p)
    /\ UNCHANGED <<donations, demands, schools, donation_id, best_demand, successes>>

\* update donations set status = matched where donation_id = id
SetDonationStatus(id, status) ==
    [d \in DOMAIN donations |->
        IF donations[d].donation_id = id
        THEN [donations[d] EXCEPT !.status = status]
        ELSE donations[d]]

UpdateDonation(p) ==
    /\ pc[p] = "commit"
    /\ donations' = SetDonationStatus(donation_id[p], MATCHED)
    /\ pc' = [pc EXCEPT ![p] = "commit2"]
    /\ solo' = SoloStep(p)
    /\ UNCHANGED <<demands, schools, donation_id, donation, best_demand,
                   outcome, successes>>

\* mutant: the first write raises after it was applied
UpdateDonationFails_Applied(p) ==
    /\ pc[p] = "commit"
    /\ donations' = SetDonationStatus(donation_id[p], MATCHED)
    /\ pc' = [pc EXCEPT ![p] = "done"]
    /\ outcome' = [outcome EXCEPT ![p] = UPDATE_FAILED]
    /\ donation' = [donation EXCEPT ![p] = NoDonation]
    /\ best_demand' = [best_demand EXCEPT ![p] = NoRow]
    /\ solo' = IF solo.proc = p THEN solo ELSE NoSolo
    /\ UNCHANGED <<demands, schools, donation_id, successes>>

\* the first write raises: the except clause answers 500
UpdateDonationFails(p) ==
    /\ pc[p] = "commit"
    /\ pc' = [pc EXCEPT ![p] = "done"]
    /\ outcome' = [outcome EXCEPT ![p] = UPDATE_FAILED]
    /\ donation' = [donation EXCEPT ![p] = NoDonation]
    /\ best_demand' = [best_demand EXCEPT ![p] = NoRow]
    /\ solo' = SoloStep(p)
    /\ UNCHANGED <<donations, demands, schools, donation_id, successes>>

new_fulfilled(p) ==
    best_demand[p].quantity_fulfilled + donation[p].quantity

\* update demands set quantity_fulfilled = v where demand_id = id
\* mutant: the update forgets its where clause
SetDemandFulfilled_EveryRow(id, v) ==
    [i \in DOMAIN demands |-> [demands[i] EXCEPT !.quantity_fulfilled = v]]

SetDemandFulfilled(id, v) ==
    [i \in DOMAIN demands |->
        IF demands[i].demand_id = id
        THEN [demands[i] EXCEPT !.quantity_fulfilled = v]
        ELSE demands[i]]

\* mutant: the response is built from the rows as written
UpdateDemand_ReturnsWritten(p) ==
    /\ pc[p] = "commit2"
    /\ demands' = [i \in DOMAIN demands |->
                      IF demands[i].demand_id = best_demand[p].demand_id
                      THEN [demands[i] EXCEPT !.quantity_fulfilled =
                               best_demand[p].quantity_fulfilled + donation[p].quantity]
                      ELSE demands[i]]
    /\ pc' = [pc EXCEPT ![p] = "done"]
    /\ outcome' = [outcome EXCEPT ![p] = SUCCESS]
    /\ successes' = [successes EXCEPT ![donation_id[p]] = @ + 1]
    /\ donation' = [donation EXCEPT ![p] = [@ EXCEPT !.status = MATCHED]]
    /\ best_demand' = [best_demand EXCEPT ![p] =
                          [@ EXCEPT !.quantity_fulfilled =
                              @ + donation[p].quantity]]
    /\ solo' = IF solo.proc = p THEN solo ELSE NoSolo
    /\ UNCHANGED <<donations, schools, donation_id>>

UpdateDemand(p) ==
    /\ pc[p] = "commit2"
    /\ demands' = SetDemandFulfilled(best_demand[p].demand_id, new_fulfilled(p))
    /\ pc' = [pc EXCEPT ![p] = "done"]
    /\ outcome' = [outcome EXCEPT ![p] = SUCCESS]
    /\ successes' = [successes EXCEPT ![donation_id[p]] = @ + 1]
    /\ solo' = SoloStep(p)
    /\ UNCHANGED <<donations, schools, donation_id, donation, best_demand>>

\* mutant: the except clause undoes the first write
UpdateDemandFails_Rollback(p) ==
    /\ pc[p] = "commit2"
    /\ pc' = [pc EXCEPT ![p] = "done"]
    /\ outcome' = [outcome EXCEPT ![p] = UPDATE_FAILED]
    /\ donation' = [donation EXCEPT ![p] = NoDonation]
    /\ best_demand' = [best_demand EXCEPT ![p] = NoRow]
    /\ donations' = [d \in DOMAIN donations |->
                        IF donations[d].donation_id = donation_id[p]
                        THEN [donations[d] EXCEPT !.status = PENDING]
                        ELSE donations[d]]
    /\ solo' = IF solo.proc = p THEN solo ELSE NoSolo
    /\ UNCHANGED <<demands, schools, donation_id, successes>>

\* the second write raises: the except clause answers 500, the first write stays
UpdateDemandFails(p) ==
    /\ pc[p] = "commit2"
    /\ pc' = [pc EXCEPT ![p] = "done"]
    /\ outcome' = [outcome EXCEPT ![p] = UPDATE_FAILED]
    /\ donation' = [donation EXCEPT ![p] = NoDonation]
    /\ best_demand' = [best_demand EXCEPT ![p] = NoRow]
    /\ solo' = SoloStep(p)
    /\ UNCHANGED <<donations, demands, schools, donation_id, successes>>

\* ------------------------------------------------------------ the stores
DonationRow(id, cat, name, qty, lat, status) ==
    [donation_id |-> id, item_category |-> cat, item_name |-> name,
     quantity |-> qty, donor_lat |-> lat, donor_lng |-> 0, status |-> status]

DemandRow(id, cat, name, prio, needed, fulfilled, school) ==
    [demand_id |-> id, item_category |-> cat, item_name |-> name,
     priority |-> prio, quantity_needed |-> needed,
     quantity_fulfilled |-> fulfilled, school_id |-> school]

SchoolRow(id, lat) ==
    [school_id |-> id, location_lat |-> lat, location_lng |-> 0]

InitWorkers ==
    /\ pc = [p \in Procs |-> "idle"]
    /\ donation_id = [p \in Procs |-> 0]
    /\ donation = [p \in Procs |-> NoDonation]
    /\ best_demand = [p \in Procs |-> NoRow]
    /\ outcome = [p \in Procs |-> RUNNING]
    /\ successes = [d \in DonationIds |-> 0]
    /\ solo = NoSolo

\* concurrent requests over a small store: both donations are books, the
\* one books demand needs 2 and lies 100 km away, the toys demand is at the
\* donor's door; donation 2 alone is larger than any need
Init ==
    /\ \E q \in 1..MaxQuantity :
          donations = <<DonationRow(1, "books", "Math", q, 0, PENDING),
                        DonationRow(2, "books", "Novel", MaxQuantity + 1, 0, PENDING)>>
    /\ demands = <<DemandRow(1, "books", "Math", 5, 2, 0, 1),
                   DemandRow(2, "toys", "Novel", 5, 1, 0, 2)>>
    /\ schools = <<SchoolRow(1, 100), SchoolRow(2, 0)>>
    /\ InitWorkers

\* the selector run by one worker over a wide range of stores: three demand
\* rows of every priority, name and category at schools 0, 100, 200 and 201 km
\* from donation 1 (donation 2 is given at km 100)
KmPoints == {0, 100, 200, 201}

AllRows == {JoinSchool(demands[i]) : i \in DOMAIN demands}

NameMatch(don, demand) == don.item_name = demand.item_name

\* The code adds the three shares as doubles.  Its order of two candidates
\* is the order of their exact scores whenever the exact scores differ, and
\* equal priority, distance and name match give equal doubles; two
\* candidates that reach equal exact scores in different ways may differ in
\* the last bit, and stores holding such a pair are left out.
RoundingFree ==
    \A d \in DOMAIN donations : \A a, b \in AllRows :
        ( /\ ~TooFar(Dist(donations[d], a)) /\ ~TooFar(Dist(donations[d], b))
          /\ total_score(donations[d], a) = total_score(donations[d], b) )
        => /\ a.priority = b.priority
           /\ Dist(donations[d], a) = Dist(donations[d], b)
           /\ NameMatch(donations[d], a) = NameMatch(donations[d], b)

InitSelector ==
    /\ donations = <<DonationRow(1, "books", "Math", 1, 0, PENDING),
                     DonationRow(2, "books", "Novel", 1, 100, PENDING)>>
    /\ \E k1, k2 \in KmPoints, k3 \in {0, 201} :
          schools = <<SchoolRow(1, k1), SchoolRow(2, k2), SchoolRow(3, k3)>>
    /\ \E c1 \in Categories, n1, n2 \in Names, p1, p2 \in Priorities,
          f1 \in 0..1, p3 \in {1, 5} :
          demands = <<DemandRow(1, c1, n1, p1, 1, f1, 1),
                      DemandRow(2, "books", n2, p2, 1, 0, 2),
                      DemandRow(3, "books", "Math", p3, 1, 0, 3)>>
    /\ RoundingFree
    /\ InitWorkers

NextSelector ==
    \/ \E id \in RequestIds : Fetch(1, id)
    \/ Select(1)

SelectorSpec == InitSelector /\ [][NextSelector]_vars

Step(p) ==
    \/ \E id \in RequestIds : Fetch(p, id)
    \/ \E id \in RequestIds : FetchFails(p, id)
    \/ Select(p)
    \/ SelectFails(p)
    \/ UpdateDonation(p)
    \/ UpdateDonationFails(p)
    \/ UpdateDemand(p)
    \/ UpdateDemandFails(p)

Next == \E p \in Procs : Step(p)

Spec == Init /\ [][Next]_vars

\* ------------------------------------------------------------------ claims

\* C1: every demand has quantity_fulfilled <= quantity_needed after any
\* sequence of match_donation invocations.
C1_FulfilledWithinNeeded ==
    \A i \in DOMAIN demands :
        demands[i].quantity_fulfilled <= demands[i].quantity_needed

\* C2: a match_donation that runs alone and returns Success leaves the
\* donation matched, the selected demand's quantity_fulfilled raised by the
\* donation's quantity, and every other row of every table as it was.
C2_SoloSuccessEffect ==
    \A p \in Procs :
        (solo.proc = p /\ pc[p] = "done" /\ outcome[p] = SUCCESS) =>
            /\ donations[donation_id[p]].status = MATCHED
            /\ \A d \in DOMAIN donations :
                  donations[d] = IF d = donation_id[p]
                                 THEN [solo.donations[d] EXCEPT !.status = MATCHED]
                                 ELSE solo.donations[d]
            /\ \A i \in DOMAIN demands :
                  demands[i] = IF demands[i].demand_id = best_demand[p].demand_id
                               THEN [solo.demands[i] EXCEPT !.quantity_fulfilled =
                                        solo.demands[i].quantity_fulfilled
                                            + donation[p].quantity]
                               ELSE solo.demands[i]
            /\ schools = solo.schools

C2_Witness ==
    \E p \in Procs :
        /\ solo.proc = p /\ pc[p] = "done" /\ outcome[p] = SUCCESS
        /\ \E i \in DOMAIN demands :
              /\ demands[i].demand_id = best_demand[p].demand_id
              /\ solo.demands[i].quantity_fulfilled > 0
              /\ demands[i].quantity_fulfilled > solo.demands[i].quantity_fulfilled

\* C3: at most one invocation returns Success for a donation, also when
\* several invocations with the same donation_id run concurrently.
C3_AtMostOneSuccess ==
    \A d \in DonationIds : successes[d] <= 1

\* C4: a request whose fetch finds the id absent or the donation already
\* matched ends with NotFound (404, no pending donation) and never reaches
\* the selector.
NotPending(id) ==
    id \notin DOMAIN donations \/ donations[id].status # PENDING

WorkerVars(p) ==
    <<pc[p], donation_id[p], donation[p], best_demand[p], outcome[p]>>

C4_NotPendingIsNotFound ==
    [][\A p \in Procs :
         ( /\ pc[p] \in {"idle", "done"}
           /\ WorkerVars(p)' # WorkerVars(p)
           /\ outcome'[p] # INTERNAL_ERROR
           /\ NotPending(donation_id'[p]) )
         => /\ pc'[p] = "done"
            /\ outcome'[p] = NOT_FOUND_DONATION
            /\ HttpStatus(outcome'[p]) = 404
            /\ best_demand'[p] = NoRow]_vars

C4_Witness ==
    \E p \in Procs :
        /\ pc[p] = "done" /\ outcome[p] = NOT_FOUND_DONATION
        /\ donation_id[p] \in DonationIds
        /\ donations[donation_id[p]].status = MATCHED
        /\ successes[donation_id[p]] = 1

\* C5: when the demand write fails after the donation write succeeded, the
\* request ends with UpdateFailed (500), the donation stays matched and no
\* demand changes: the first write is not rolled back.
C5_NoRollback ==
    [][\A p \in Procs :
         (pc[p] = "commit2" /\ pc'[p] = "done" /\ outcome'[p] # SUCCESS)
         => /\ outcome'[p] = UPDATE_FAILED
            /\ HttpStatus(outcome'[p]) = 500
            /\ donations[donation_id[p]].status = MATCHED
            /\ donations' = donations
            /\ demands' = demands]_vars

C5_Witness ==
    \E p \in Procs :
        /\ pc[p] = "done" /\ outcome[p] = UPDATE_FAILED
        /\ \A q \in Procs \ {p} : pc[q] = "idle"
        /\ donations[donation_id[p]].status = MATCHED
        /\ successes[donation_id[p]] = 0
        /\ \A i \in DOMAIN demands : demands[i].quantity_fulfilled = 0

\* a step in which worker p's candidate query returned and the selector ran
SelectorRan(p) ==
    pc[p] = "select" /\ pc'[p] # "select" /\ outcome'[p] # INTERNAL_ERROR

Survivors(don, rows) ==
    {i \in DOMAIN rows : Dist(don, rows[i]) <= 200}

\* C6: find_best_match never returns a demand whose school lies more than
\* 200 km from the donor, whatever the priorities and names, and a candidate
\* at exactly 200 km is eligible.
C6_CutoffIsHard ==
    [][\A p \in Procs :
         SelectorRan(p) =>
            LET don == donation[p]
                rows == QueryDemands(don)
            IN /\ best_demand'[p] # NoRow => Dist(don, best_demand'[p]) <= 200
               /\ (\E i \in DOMAIN rows : Dist(don, rows[i]) = 200)
                     => best_demand'[p] # NoRow]_vars

C6_Witness ==
    \E p \in Procs :
        /\ pc[p] = "commit"
        /\ Dist(donation[p], best_demand[p]) = 200
        /\ ~NameMatch(donation[p], best_demand[p])
        /\ \E r \in AllRows :
              /\ r.item_category = donation[p].item_category
              /\ r.quantity_fulfilled < r.quantity_needed
              /\ Dist(donation[p], r) > 200
              /\ r.priority > best_demand[p].priority
              /\ NameMatch(donation[p], r)

\* C7: when several surviving candidates share the maximal total score,
\* find_best_match returns the one that comes first in the sequence the
\* query returned.
C7_FirstWinsOnTie ==
    [][\A p \in Procs :
         SelectorRan(p) =>
            LET don == donation[p]
                rows == QueryDemands(don)
                top == {i \in Survivors(don, rows) :
                          \A j \in Survivors(don, rows) :
                             total_score(don, rows[j]) <= total_score(don, rows[i])}
            IN Cardinality(top) >= 2
                 => \E i \in top : /\ best_demand'[p] = rows[i]
                                   /\ \A j \in top : i <= j]_vars

C7_Witness ==
    \E p \in Procs :
        /\ pc[p] = "commit"
        /\ LET don == donation[p]
               rows == QueryDemands(don)
           IN /\ Len(rows) = 3
              /\ Survivors(don, rows) = {1, 2, 3}
              /\ total_score(don, rows[1]) < total_score(don, rows[2])
              /\ total_score(don, rows[2]) = total_score(don, rows[3])
              /\ best_demand[p] = rows[2]

InRange(don) ==
    {r \in AllRows : r.priority \in Priorities /\ Dist(don, r) <= 200}

C9_ScoreRangeAndMonotone ==
    \A p \in Procs :
        pc[p] \in {"select", "commit"} =>
            LET don == donation[p]
            IN /\ \A r \in InRange(don) :
                     0 <= total_score(don, r) /\ total_score(don, r) <= Scale
               /\ \A a, b \in InRange(don) :
                     ( /\ a.priority = b.priority
                       /\ NameMatch(don, a) = NameMatch(don, b)
                       /\ Dist(don, a) < Dist(don, b) )
                     => total_score(don, a) > total_score(don, b)
               /\ \A a, b \in InRange(don) :
                     ( /\ Dist(don, a) = Dist(don, b)
                       /\ NameMatch(don, a) = NameMatch(don, b)
                       /\ a.priority > b.priority )
                     => total_score(don, a) > total_score(don, b)

C9_Witness ==
    \E p \in Procs :
        /\ pc[p] = "commit"
        /\ LET don == donation[p]
           IN /\ \E a, b \in InRange(don) :
                    /\ a.priority = b.priority
                    /\ NameMatch(don, a) = NameMatch(don, b)
                    /\ Dist(don, a) = 0 /\ Dist(don, b) = 200
                    /\ best_demand[p] = a
              /\ \E a, b \in InRange(don) :
                    /\ Dist(don, a) = Dist(don, b)
                    /\ NameMatch(don, a) = NameMatch(don, b)
                    /\ a.priority = 5 /\ b.priority = 1
              /\ \E r \in InRange(don) : total_score(don, r) = Scale

\* C10: every demand whose quantity_fulfilled match_donation writes has the
\* category of the donation being matched and had quantity_fulfilled <
\* quantity_needed when the candidate query read it.
C10_WrittenDemandWasCandidate ==
    [][\A i \in DOMAIN demands :
         demands'[i].quantity_fulfilled # demands[i].quantity_fulfilled
         => \E p \in Procs :
              /\ pc[p] = "commit2" /\ pc'[p] = "done"
              /\ best_demand[p].demand_id = demands[i].demand_id
              /\ demands[i].item_category = donation[p].item_category
              /\ best_demand[p].item_category = donation[p].item_category
              /\ best_demand[p].quantity_fulfilled < best_demand[p].quantity_needed]_vars

C10_Witness ==
    \E p \in Procs :
        /\ pc[p] = "done" /\ outcome[p] = SUCCESS
        /\ best_demand[p].item_category = "books"
        /\ \E i \in DOMAIN demands :
              /\ demands[i].demand_id = best_demand[p].demand_id
              /\ demands[i].quantity_fulfilled > 0
        /\ \E i \in DOMAIN demands :
              /\ demands[i].item_category = "toys"
              /\ demands[i].quantity_fulfilled = 0

\* C11: every finished match_donation request has one of the three outcomes
\* Success, NotFound or UpdateFailed, also when the pending-donation fetch or
\* the candidate query fails.
C11_ThreeOutcomes ==
    \A p \in Procs :
        pc[p] = "done" =>
            outcome[p] \in {SUCCESS, NOT_FOUND_DONATION, NOT_FOUND_DEMAND,
                            UPDATE_FAILED}

\* C12: the payload of a Success response is the donation as the fetch read
\* it (status still pending) and the matched demand as the candidate query
\* read it, joined with its school; the values written by the two updates
\* are not in it.
C12_PayloadIsAsRead ==
    [][\A p \in Procs :
         /\ (pc[p] \in {"idle", "done"} /\ pc'[p] = "select")
              => /\ donation'[p] = donations[donation_id'[p]]
                 /\ donation'[p].status = PENDING
         /\ (pc[p] = "select" /\ pc'[p] = "commit")
              => \E i \in DOMAIN demands :
                    /\ best_demand'[p] = JoinSchool(demands[i])
                    /\ best_demand'[p].schools = schools[demands[i].school_id]
         /\ (pc[p] = "commit" /\ pc'[p] = "commit2")
              => donation'[p] = donation[p] /\ best_demand'[p] = best_demand[p]
         /\ (pc[p] = "commit2" /\ pc'[p] = "done" /\ outcome'[p] = SUCCESS)
              => /\ donation'[p] = donation[p]
                 /\ best_demand'[p] = best_demand[p]
                 /\ donation'[p].status = PENDING
                 /\ donations'[donation_id[p]].status = MATCHED
                 /\ \A i \in DOMAIN demands :
                       demands[i].demand_id = best_demand[p].demand_id
                       => demands'[i].quantity_fulfilled =
                             best_demand'[p].quantity_fulfilled
                                 + donation'[p].quantity]_vars

C12_Witness ==
    \E p \in Procs :
        /\ pc[p] = "done" /\ outcome[p] = SUCCESS
        /\ donation[p].status = PENDING
        /\ donations[donation_id[p]].status = MATCHED
        /\ best_demand[p].schools = schools[best_demand[p].school_id]
        /\ \E i \in DOMAIN demands :
              /\ demands[i].demand_id = best_demand[p].demand_id
              /\ best_demand[p].quantity_fulfilled > 0
              /\ demands[i].quantity_fulfilled > best_demand[p].quantity_fulfilled

\* C13: when at least one candidate with priority in 1..5 lies within 200 km,
\* find_best_match returns a candidate, that candidate lies within 200 km,
\* and no candidate within 200 km has a strictly greater total score.
C13_BestIsMaximal ==
    [][\A p \in Procs :
         SelectorRan(p) =>
            LET don == donation[p]
                rows == QueryDemands(don)
                near == Survivors(don, rows)
            IN (\E i \in near : rows[i].priority \in 1..5)
                 => /\ best_demand'[p] # NoRow
                    /\ \E i \in near : best_demand'[p] = rows[i]
                    /\ \A j \in near :
                          total_score(don, rows[j])
                              <= total_score(don, best_demand'[p])]_vars

C13_Witness ==
    \E p \in Procs :
        /\ pc[p] = "commit"
        /\ LET don == donation[p]
               rows == QueryDemands(don)
           IN /\ Len(rows) = 3
              /\ Survivors(don, rows) = {1, 2, 3}
              /\ total_score(don, rows[1]) < total_score(don, rows[3])
              /\ total_score(don, rows[3]) < total_score(don, rows[2])
              /\ best_demand[p] = rows[2]

\* C14: when two invocations for two different pending donations interleave,
\* select the same demand and both return Success (each donation matched
\* once), the demand's quantity_fulfilled ends at its initial value plus the
\* two donations' quantities.
C14_NoLostIncrement ==
    \A p, q \in Procs :
        ( /\ p # q
          /\ \A w \in Procs : ~Active(w)
          /\ pc[p] = "done" /\ outcome[p] = SUCCESS
          /\ pc[q] = "done" /\ outcome[q] = SUCCESS
          /\ donation_id[p] # donation_id[q]
          /\ successes[donation_id[p]] = 1 /\ successes[donation_id[q]] = 1
          /\ best_demand[p].demand_id = best_demand[q].demand_id )
        => LET initial == IF best_demand[p].quantity_fulfilled
                                <= best_demand[q].quantity_fulfilled
                          THEN best_demand[p].quantity_fulfilled
                          ELSE best_demand[q].quantity_fulfilled
           IN \A i \in DOMAIN demands :
                 demands[i].demand_id = best_demand[p].demand_id
                 => demands[i].quantity_fulfilled =
                       initial + donation[p].quantity + donation[q].quantity

\* C15: when the donation-status write fails, the demand write is not
\* attempted: the request ends with UpdateFailed (500), no donation and no
\* demand changes, and the donation of a request running alone is still
\* pending, so that a later request can fetch and match it.
C15_FirstWriteFailureWritesNothing ==
    [][\A p \in Procs :
         (pc[p] = "commit" /\ pc'[p] = "done")
         => /\ outcome'[p] = UPDATE_FAILED
            /\ HttpStatus(outcome'[p]) = 500
            /\ donations' = donations
            /\ demands' = demands
            /\ solo.proc = p
                 => /\ donations'[donation_id[p]].status = PENDING
                    /\ demands' = solo.demands]_vars

C15_Witness ==
    \E p \in Procs :
        /\ solo.proc = p
        /\ pc[p] = "done" /\ outcome[p] = UPDATE_FAILED
        /\ donations[donation_id[p]].status = PENDING
        /\ FetchPending(donation_id[p]) # <<>>
        /\ find_best_match(donations[donation_id[p]]) # NoRow

\* C16: a match_donation that returns NotFound, for want of a pending
\* donation or of a suitable demand, writes nothing: none of its steps
\* changes a table, and when it ran alone the tables are as it found them.
NotFoundOutcomes == {NOT_FOUND_DONATION, NOT_FOUND_DEMAND}

C16_NotFoundWritesNothing ==
    [][\A p \in Procs :
         /\ ( /\ \/ pc[p] \in {"idle", "done"} /\ WorkerVars(p)' # WorkerVars(p)
                 \/ pc[p] = "select" /\ pc'[p] # "select"
              /\ outcome'[p] \in NotFoundOutcomes \cup {RUNNING} )
              => donations' = donations /\ demands' = demands
         /\ ( /\ solo'.proc = p
              /\ pc'[p] = "done"
              /\ outcome'[p] \in NotFoundOutcomes )
              => /\ HttpStatus(outcome'[p]) = 404
                 /\ donations' = solo'.donations
                 /\ demands' = solo'.demands]_vars

C16_Witness ==
    \E p \in Procs :
        /\ solo.proc = p
        /\ pc[p] = "done" /\ outcome[p] = NOT_FOUND_DEMAND
        /\ donations[donation_id[p]].status = PENDING
        /\ \E i \in DOMAIN demands :
              /\ demands[i].item_category = donations[donation_id[p]].item_category
              /\ demands[i].quantity_fulfilled >= demands[i].quantity_needed

====
